---- MODULE Spec2Model ----
(***************************************************************************)
(* Model of the photo organizer: the decision procedure of                 *)
(* HomeworkImageClassifier (classifier.py) and the run of                  *)
(* PhotoOrganizer.organize_photos (organizer.py).                          *)
(*                                                                         *)
(* Strings whose characters matter (labels, keywords, file names, paths)   *)
(* are sequences of one-character strings, so that lower-casing, substring *)
(* containment, suffix extraction and path joining are computed.           *)
(* Confidences are integers in hundredths (0.5 is 50, 0.0 is 0).           *)
(***************************************************************************)
EXTENDS Integers, Sequences, FiniteSets, TLC

\* ------------------------------------------------------------------------
\* Bounds of the model
\* ------------------------------------------------------------------------

\* longest ranked prediction list drawn for one image
MaxPreds == 2

\* largest number of children of the source directory
MaxEntries == 4

\* ------------------------------------------------------------------------
\* Character strings
\* ------------------------------------------------------------------------

\* str.lower() on one character
LowerChar(c) ==
  CASE c = "A" -> "a" [] c = "B" -> "b" [] c = "C" -> "c" [] c = "D" -> "d"
    [] c = "E" -> "e" [] c = "F" -> "f" [] c = "G" -> "g" [] c = "H" -> "h"
    [] c = "I" -> "i" [] c = "J" -> "j" [] c = "K" -> "k" [] c = "L" -> "l"
    [] c = "M" -> "m" [] c = "N" -> "n" [] c = "O" -> "o" [] c = "P" -> "p"
    [] c = "Q" -> "q" [] c = "R" -> "r" [] c = "S" -> "s" [] c = "T" -> "t"
    [] c = "U" -> "u" [] c = "V" -> "v" [] c = "W" -> "w" [] c = "X" -> "x"
    [] c = "Y" -> "y" [] c = "Z" -> "z" [] OTHER -> c

\* str.lower()
Lower(s) == [k \in 1..Len(s) |-> LowerChar(s[k])]

\* Python's  sub in s  on strings
Contains(sub, s) ==
  \E k \in 0..(Len(s) - Len(sub)) : SubSeq(s, k + 1, k + Len(sub)) = sub

\* ------------------------------------------------------------------------
\* classifier.py
\* ------------------------------------------------------------------------

\* DOCUMENT_HEURISTIC_CONFIDENCE = 0.5, in hundredths
DOCUMENT_HEURISTIC_CONFIDENCE == 50

\* config.VARIANCE_THRESHOLD
VARIANCE_THRESHOLD == 5000

\* self.homework_keywords, in list order
homework_keywords ==
  << <<"n", "o", "t", "e", "b", "o", "o", "k">>,
     <<"b", "o", "o", "k">>,
     <<"p", "a", "p", "e", "r">>,
     <<"p", "e", "n">>,
     <<"p", "e", "n", "c", "i", "l">>,
     <<"d", "e", "s", "k">>,
     <<"m", "o", "n", "i", "t", "o", "r">>,
     <<"s", "c", "r", "e", "e", "n">>,
     <<"k", "e", "y", "b", "o", "a", "r", "d">>,
     <<"l", "a", "p", "t", "o", "p">>,
     <<"c", "o", "m", "p", "u", "t", "e", "r">>,
     <<"w", "h", "i", "t", "e", "b", "o", "a", "r", "d">>,
     <<"b", "l", "a", "c", "k", "b", "o", "a", "r", "d">>,
     <<"c", "h", "a", "l", "k", "b", "o", "a", "r", "d">>,
     <<"b", "o", "o", "k", "_", "j", "a", "c", "k", "e", "t">>,
     <<"p", "e", "n", "c", "i", "l", "_", "b", "o", "x">>,
     <<"b", "i", "n", "d", "e", "r">>,
     <<"c", "a", "l", "c", "u", "l", "a", "t", "o", "r">> >>

\* the two fixed reason strings
DocumentHeuristic == <<"d", "o", "c", "u", "m", "e", "n", "t", "_", "h", "e", "u", "r", "i", "s", "t", "i", "c">>

ErrorReason == <<"e", "r", "r", "o", "r">>

\* labels the model can return for an image
Labels ==
  { <<"d", "o", "g">>,
    <<"N", "o", "t", "e", "b", "o", "o", "k">>,
    <<"c", "a", "r", "p", "e", "n", "t", "e", "r">>,
    <<"w", "e", "b", "_", "s", "i", "t", "e">>,
    <<"D", "E", "S", "K">> }

\* confidences the model can return, in hundredths
Confidences == {5, 50, 90}

\* grayscale variances around the threshold
Variances == {4999, 5000, 5001}

\* one decoded prediction: (class_name, confidence) of decode_predictions
Prediction == [label : Labels, conf : Confidences]

\* decode_predictions output: non-empty, ordered by descending confidence
RankedPredictions ==
  { d \in UNION { [1..n -> Prediction] : n \in 1..MaxPreds } :
      \A k \in 1..(Len(d) - 1) : d[k].conf >= d[k + 1].conf }

\* What the collaborators do on one image file: whether load_img / predict
\* succeed, the decoded predictions, whether the grayscale variance can be
\* computed and its value.
NoImage == [loads |-> FALSE, decoded |-> <<>>, var_ok |-> FALSE, variance |-> 0]

ImageBehaviours ==
  { NoImage }
  \cup { [loads |-> TRUE, decoded |-> d, var_ok |-> FALSE, variance |-> 0] :
           d \in RankedPredictions }
  \cup { [loads |-> TRUE, decoded |-> d, var_ok |-> TRUE, variance |-> v] :
           d \in RankedPredictions, v \in Variances }

\* the tuple (is_homework, confidence, top_prediction) returned, or an
\* exception leaving is_homework_related
Returned(is_hw, conf, pred) ==
  [raised |-> FALSE, is_hw |-> is_hw, conf |-> conf, pred |-> pred]

Raised == [raised |-> TRUE, is_hw |-> FALSE, conf |-> 0, pred |-> <<>>]

\* inner loop: some keyword from position k on is contained in the label
RECURSIVE AnyKeywordFrom(_, _)
AnyKeywordFrom(class_name_lower, k) ==
  IF k > Len(homework_keywords) THEN FALSE
  ELSE IF Contains(homework_keywords[k], class_name_lower) THEN TRUE
  ELSE AnyKeywordFrom(class_name_lower, k + 1)

KeywordReturn_top1(decoded, n) ==
  Returned(TRUE, decoded[1].conf, decoded[n].label)

\* return True, float(confidence), class_name
KeywordReturn(decoded, n) ==
  Returned(TRUE, decoded[n].conf, decoded[n].label)

\* outer loop: rank of the first prediction from rank n on whose lower-cased
\* label contains a keyword, 0 when the loop ends without returning
RECURSIVE FirstKeywordRank(_, _)
FirstKeywordRank(decoded, n) ==
  IF n > Len(decoded) THEN 0
  ELSE IF AnyKeywordFrom(Lower(decoded[n].label), 1) THEN n
  ELSE FirstKeywordRank(decoded, n + 1)

HeuristicFires_onfail(img) ==
  ~img.var_ok \/ img.variance > VARIANCE_THRESHOLD

HeuristicFires_ge(img) ==
  img.var_ok /\ img.variance >= VARIANCE_THRESHOLD

\* the try block: the variance is computed and exceeds the threshold; an
\* exception in the block is swallowed and the block does not return
HeuristicFires(img) ==
  img.var_ok /\ img.variance > VARIANCE_THRESHOLD

HeuristicReturn_threshold == Returned(TRUE, 30, DocumentHeuristic)

\* return True, DOCUMENT_HEURISTIC_CONFIDENCE, "document_heuristic"
HeuristicReturn ==
  Returned(TRUE, DOCUMENT_HEURISTIC_CONFIDENCE, DocumentHeuristic)

\* return False, top_confidence, top_class
TopReturn(decoded) == Returned(FALSE, decoded[1].conf, decoded[1].label)

\* HomeworkImageClassifier.is_homework_related
is_homework_related(img) ==
  IF ~img.loads THEN Raised
  ELSE LET n == FirstKeywordRank(img.decoded, 1)
       IN  IF n > 0 THEN KeywordReturn(img.decoded, n)
           ELSE IF HeuristicFires(img) THEN HeuristicReturn
           ELSE TopReturn(img.decoded)

\* ------------------------------------------------------------------------
\* pathlib
\* ------------------------------------------------------------------------

\* str.rfind(c) + 1: position of the last c in s, 0 when there is none
LastIndexOf(s, c) ==
  LET hits == { k \in 1..Len(s) : s[k] = c }
  IN  IF hits = {} THEN 0 ELSE CHOOSE k \in hits : \A j \in hits : j <= k

\* Path(dir) / name, and str() of it
PathJoin(dir, name) == dir \o <<"/">> \o name

\* Path(p).name
PathName(p) == SubSeq(p, LastIndexOf(p, "/") + 1, Len(p))

\* Path(p).parent
PathParent(p) == SubSeq(p, 1, LastIndexOf(p, "/") - 1)

\* Path(p).suffix: from the last dot of the name, unless that dot is the
\* first or the last character of the name
PathSuffix(p) ==
  LET name == PathName(p)
      k == LastIndexOf(name, ".")
  IN  IF 1 < k /\ k < Len(name) THEN SubSeq(name, k, Len(name)) ELSE <<>>

\* ------------------------------------------------------------------------
\* organizer.py
\* ------------------------------------------------------------------------

\* self.source_dir and self.homework_dir of the run
source_dir == <<"s", "r", "c">>

homework_dir == <<"o", "u", "t">>

\* self.image_extensions
image_extensions ==
  { <<".", "j", "p", "g">>,
    <<".", "j", "p", "e", "g">>,
    <<".", "p", "n", "g">>,
    <<".", "b", "m", "p">>,
    <<".", "g", "i", "f">>,
    <<".", "w", "e", "b", "p">> }

\* Entries a source directory can hold: a name, whether it is a directory,
\* and whether its content is an image the collaborators may decode.
EntryUniverse ==
  { [name |-> <<"a", ".", "j", "p", "g">>, is_dir |-> FALSE, image |-> TRUE],
    [name |-> <<"b", ".", "P", "N", "G">>, is_dir |-> FALSE, image |-> TRUE],
    [name |-> <<"c", ".", "J", "p", "e", "g">>, is_dir |-> FALSE, image |-> TRUE],
    [name |-> <<"d", ".", "t", "x", "t">>, is_dir |-> FALSE, image |-> FALSE],
    [name |-> <<".", "g", "i", "f">>, is_dir |-> FALSE, image |-> FALSE],
    [name |-> <<"e", ".", "w", "e", "b", "p">>, is_dir |-> TRUE, image |-> FALSE] }

\* A file already in the destination before the run.
OldDestFile == PathJoin(homework_dir, <<"a", ".", "j", "p", "g">>)

\* Behaviours of the collaborators on the images of a run: unreadable, a
\* keyword only at rank 2, no keyword with variance above the threshold,
\* no keyword with variance at the threshold.
Dog90 == [label |-> <<"d", "o", "g">>, conf |-> 90]

Notebook5 == [label |-> <<"N", "o", "t", "e", "b", "o", "o", "k">>, conf |-> 5]

RunBehaviours ==
  { NoImage,
    [loads |-> TRUE, decoded |-> <<Dog90, Notebook5>>, var_ok |-> TRUE, variance |-> 4999],
    [loads |-> TRUE, decoded |-> <<Dog90>>, var_ok |-> TRUE, variance |-> 5001],
    [loads |-> TRUE, decoded |-> <<Dog90>>, var_ok |-> TRUE, variance |-> 5000] }

\* all orderings of a finite set, as sequences
Orderings(S) ==
  { q \in [1..Cardinality(S) -> S] : \A j, k \in 1..Cardinality(S) : q[j] = q[k] => j = k }

\* ------------------------------------------------------------------------
\* State
\* ------------------------------------------------------------------------

VARIABLES
  fs_files,     \* paths of the regular files that exist
  fs_dirs,      \* paths of the directories that exist
  fs_content,   \* for each regular file, the path its content was at when the run started
  files0,       \* fs_files when the run started
  dirs0,        \* fs_dirs when the run started
  behaviour,    \* what the collaborators do on each child of the source
  dry_run,      \* the dry_run argument of organize_photos
  pc,           \* phase of organize_photos
  image_files,  \* list returned by get_image_files
  results,      \* list built by classify_batch
  idx,          \* position of the loop over results in organize_photos
  stats,        \* the stats dictionary
  ret,          \* what organize_photos returned
  exit_code,    \* exit status of organizer.main, -1 while it runs
  cls_pc,       \* position of classifier.main
  cls_img,      \* what the collaborators do on the image given to classifier.main
  cls_out       \* what is_homework_related gave classifier.main

vars ==
  << fs_files, fs_dirs, fs_content, files0, dirs0, behaviour, dry_run, pc, image_files, results,
     idx, stats, ret, exit_code, cls_pc, cls_img, cls_out >>

fs_vars == << fs_files, fs_dirs, fs_content >>

cls_vars == << cls_pc, cls_img, cls_out >>

run_vars ==
  << fs_files, fs_dirs, fs_content, files0, dirs0, behaviour, dry_run, pc, image_files, results,
     idx, stats, ret, exit_code >>

\* values of variables that hold nothing yet
NoStats == [unset |-> TRUE]

Pending == [kind |-> "pending"]

ReturnedNone == [kind |-> "None"]

ReturnedDict(d) == [kind |-> "dict", value |-> d]

\* ------------------------------------------------------------------------
\* organize_photos
\* ------------------------------------------------------------------------

\* self.source_dir.iterdir(): the direct children of the source directory
IterDir(dir) == { p \in fs_files \cup fs_dirs : PathParent(p) = dir }

IsImageFile_nolower(p) ==
  p \in fs_files /\ PathSuffix(p) \in image_extensions

\* file_path.is_file() and file_path.suffix.lower() in self.image_extensions
IsImageFile(p) ==
  p \in fs_files /\ Lower(PathSuffix(p)) \in image_extensions

SourceExists_always == TRUE

\* self.source_dir.exists(): the path exists, as a directory or as a file
SourceExists == source_dir \in fs_dirs \cup fs_files

\* if not self.source_dir.exists(): return None
ValidateSource ==
  /\ pc = "VALIDATING_SOURCE"
  /\ IF ~SourceExists
       THEN /\ pc' = "ABORTED"
            /\ ret' = ReturnedNone
       ELSE /\ pc' = "ENSURING_DESTINATION"
            /\ ret' = ret
  /\ UNCHANGED << fs_vars, files0, dirs0, behaviour, dry_run, image_files, results, idx, stats, exit_code, cls_vars >>

\* self.homework_dir.mkdir(parents=True, exist_ok=True)
create_homework_folder ==
  /\ pc = "ENSURING_DESTINATION"
  /\ fs_dirs' = fs_dirs \cup {homework_dir}
  /\ pc' = "ENUMERATING"
  /\ UNCHANGED << fs_files, fs_content, files0, dirs0, behaviour, dry_run, image_files, results, idx, stats, ret, exit_code, cls_vars >>

\* image_files = self.get_image_files(), in the order iterdir() yields the
\* children, and the early return when there is none; iterdir() raises when
\* the source path is not a directory, and nothing catches it
get_image_files ==
  /\ pc = "ENUMERATING"
  /\ IF source_dir \notin fs_dirs
       THEN /\ pc' = "RAISED"
            /\ UNCHANGED << image_files, ret >>
       ELSE \E q \in Orderings({ p \in IterDir(source_dir) : IsImageFile(p) }) :
              /\ image_files' = q
              /\ IF Len(q) = 0
                   THEN /\ pc' = "REPORTED"
                        /\ ret' = ReturnedDict([total |-> 0, homework |-> 0, regular |-> 0])
                   ELSE /\ pc' = "CLASSIFYING"
                        /\ ret' = ret
  /\ UNCHANGED << fs_vars, files0, dirs0, behaviour, dry_run, results, idx, stats, exit_code, cls_vars >>

ClassifyResult_abort(img_path, r) ==
  [path |-> img_path, is_hw |-> r.is_hw, conf |-> r.conf, pred |-> r.pred]

\* the tuple classify_batch appends for one path: the verdict, or
\* (img_path, False, 0.0, "error") when is_homework_related raised
ClassifyResult(img_path, r) ==
  IF r.raised
    THEN [path |-> img_path, is_hw |-> FALSE, conf |-> 0, pred |-> ErrorReason]
    ELSE [path |-> img_path, is_hw |-> r.is_hw, conf |-> r.conf, pred |-> r.pred]

BatchFinished_early == Len(results) >= 1

\* the loop of classify_batch has gone through all of image_paths
BatchFinished == Len(results) = Len(image_files)

\* one iteration of the loop of classify_batch
ClassifyNext ==
  /\ pc = "CLASSIFYING"
  /\ ~BatchFinished
  /\ LET img_path == image_files[Len(results) + 1]
     IN  results' = Append(results, ClassifyResult(img_path, is_homework_related(behaviour[img_path])))
  /\ UNCHANGED << fs_vars, files0, dirs0, behaviour, dry_run, pc, image_files, idx, stats, ret, exit_code, cls_vars >>

\* classify_batch returns;
\* stats = {"total": len(results), "homework": 0, "regular": 0, "errors": 0}
InitStats ==
  /\ pc = "CLASSIFYING"
  /\ BatchFinished
  /\ stats' = [total |-> Len(results), homework |-> 0, regular |-> 0, errors |-> 0]
  /\ idx' = 1
  /\ pc' = "APPLYING"
  /\ UNCHANGED << fs_vars, files0, dirs0, behaviour, dry_run, image_files, results, ret, exit_code, cls_vars >>

CountHomework_nodry(st) == IF dry_run THEN st ELSE [st EXCEPT !.homework = @ + 1]

\* stats["homework"] += 1
CountHomework(st) == [st EXCEPT !.homework = @ + 1]

CountError_none(st) == st

CountError_twice(st) == [st EXCEPT !.errors = @ + 2]

CountError_uncount(st) == [st EXCEPT !.errors = @ + 1, !.homework = @ - 1]

\* stats["errors"] += 1
CountError(st) == [st EXCEPT !.errors = @ + 1]

CountRegular_error(st) == [st EXCEPT !.regular = @ + 1, !.errors = @ + 1]

\* stats["regular"] += 1
CountRegular(st) == [st EXCEPT !.regular = @ + 1]

CountFailedMove_late(st) == CountError(st)

\* the counting of a target whose move raised: stats["homework"] += 1
\* before the move, stats["errors"] += 1 in the except clause
CountFailedMove(st) == CountError(CountHomework(st))

IsTarget_any(r) == TRUE

\* if is_homework:
IsTarget(r) == r.is_hw

MoveFile_copy(content, src, dst) ==
  [q \in DOMAIN content \cup {dst} |-> IF q = dst THEN content[src] ELSE content[q]]

\* a shutil.move(src, dst) that returns: the file is no longer at src and
\* dst holds its content, replacing what was there
MoveFile(content, src, dst) ==
  [q \in (DOMAIN content \ {src}) \cup {dst} |-> IF q = dst THEN content[src] ELSE content[q]]

MoveAttempted_always(r) == r.is_hw

\* the branch that calls shutil.move: is_homework and not dry_run
MoveAttempted(r) == IsTarget(r) /\ ~dry_run

\* one iteration of the loop over results; shutil.move either moves the
\* file to homework_dir / img_file.name or raises and leaves it in place
ApplyNext ==
  /\ pc = "APPLYING"
  /\ idx <= Len(results)
  /\ LET r == results[idx]
         img_file == r.path
         dest_path == PathJoin(homework_dir, PathName(img_file))
     IN  IF IsTarget(r)
           THEN IF MoveAttempted(r)
                  THEN \E moved \in BOOLEAN :
                         IF moved
                           THEN /\ fs_content' = MoveFile(fs_content, img_file, dest_path)
                                /\ fs_files' = DOMAIN fs_content'
                                /\ fs_dirs' = fs_dirs
                                /\ stats' = CountHomework(stats)
                           ELSE /\ UNCHANGED fs_vars
                                /\ stats' = CountFailedMove(stats)
                  ELSE /\ stats' = CountHomework(stats)
                       /\ UNCHANGED fs_vars
           ELSE /\ stats' = CountRegular(stats)
                /\ UNCHANGED fs_vars
  /\ idx' = idx + 1
  /\ UNCHANGED << files0, dirs0, behaviour, dry_run, pc, image_files, results, ret, exit_code, cls_vars >>

\* the summary is printed; return stats
Summary ==
  /\ pc = "APPLYING"
  /\ idx > Len(results)
  /\ ret' = ReturnedDict(stats)
  /\ pc' = "REPORTED"
  /\ UNCHANGED << fs_vars, files0, dirs0, behaviour, dry_run, image_files, results, idx, stats, exit_code, cls_vars >>

\* organizer.main: the value organize_photos returns is dropped and main
\* falls off its end, so the process exits with status 0; an exception that
\* left organize_photos ends the process with status 1
MainExit ==
  /\ pc \in {"ABORTED", "REPORTED", "RAISED"}
  /\ exit_code = -1
  /\ exit_code' = IF pc = "RAISED" THEN 1 ELSE 0
  /\ UNCHANGED << fs_vars, files0, dirs0, behaviour, dry_run, pc, image_files, results, idx, stats, ret, cls_vars >>

\* ------------------------------------------------------------------------
\* classifier.main
\* ------------------------------------------------------------------------

\* is_homework, confidence, prediction = classifier.is_homework_related(img_path)
ClassifierMain ==
  /\ cls_pc = "start"
  /\ cls_out' = is_homework_related(cls_img)
  /\ cls_pc' = "done"
  /\ UNCHANGED << cls_img, run_vars >>

\* ------------------------------------------------------------------------
\* Specifications
\* ------------------------------------------------------------------------

\* The paths of a set of entries of the source directory.
PathsOf(entries) == { PathJoin(source_dir, e.name) : e \in entries }

\* A run of organize_photos on any source path: absent, a regular file, or
\* a directory of at most MaxEntries children; with the destination absent,
\* empty or already holding a file.
Init ==
  /\ \E src \in {"absent", "file", "dir"}, children \in SUBSET EntryUniverse,
        dest \in {"absent", "empty", "used"} :
       /\ Cardinality(children) <= MaxEntries
       /\ (src # "dir") => children = {}
       /\ fs_files = PathsOf({ e \in children : ~e.is_dir })
                       \cup (IF src = "file" THEN {source_dir} ELSE {})
                       \cup (IF dest = "used" THEN {OldDestFile} ELSE {})
       /\ fs_dirs = PathsOf({ e \in children : e.is_dir })
                       \cup (IF src = "dir" THEN {source_dir} ELSE {})
                       \cup (IF dest = "absent" THEN {} ELSE {homework_dir})
       /\ \E b \in [PathsOf({ e \in children : e.image }) -> RunBehaviours] :
            behaviour = [p \in PathsOf(children) |->
                           IF p \in DOMAIN b THEN b[p] ELSE NoImage]
  /\ files0 = fs_files
  /\ fs_content = [p \in fs_files |-> p]
  /\ dirs0 = fs_dirs
  /\ dry_run \in BOOLEAN
  /\ pc = "VALIDATING_SOURCE"
  /\ image_files = <<>>
  /\ results = <<>>
  /\ idx = 0
  /\ stats = NoStats
  /\ ret = Pending
  /\ exit_code = -1
  /\ cls_pc = "idle"
  /\ cls_img = NoImage
  /\ cls_out = Raised

Next ==
  \/ ValidateSource
  \/ create_homework_folder
  \/ get_image_files
  \/ ClassifyNext
  \/ InitStats
  \/ ApplyNext
  \/ Summary
  \/ MainExit

Spec == Init /\ [][Next]_vars

\* classifier.main on one image, for every behaviour of the collaborators
\* on it.
InitClassify ==
  /\ cls_pc = "start"
  /\ cls_img \in ImageBehaviours
  /\ cls_out = Raised
  /\ fs_files = {}
  /\ fs_dirs = {}
  /\ files0 = {}
  /\ fs_content = [p \in {} |-> p]
  /\ dirs0 = {}
  /\ behaviour = <<>>
  /\ dry_run = FALSE
  /\ pc = "NOT_STARTED"
  /\ image_files = <<>>
  /\ results = <<>>
  /\ idx = 0
  /\ stats = NoStats
  /\ ret = Pending
  /\ exit_code = -1

NextClassify == ClassifierMain

SpecClassify == InitClassify /\ [][NextClassify]_vars

\* ------------------------------------------------------------------------
\* Properties of is_homework_related (checked under SpecClassify)
\* ------------------------------------------------------------------------

\* the lower-cased label of a prediction contains some keyword
LabelMatches(p) ==
  \E k \in 1..Len(homework_keywords) : Contains(homework_keywords[k], Lower(p.label))

\* classifier.main has its answer for an image that was loaded and predicted
Decided == cls_pc = "done" /\ cls_img.loads

NoLabelMatches == \A n \in 1..Len(cls_img.decoded) : ~LabelMatches(cls_img.decoded[n])

C2_HeuristicAboveThreshold ==
  (Decided /\ NoLabelMatches /\ cls_img.var_ok /\ cls_img.variance > VARIANCE_THRESHOLD)
    => cls_out = [raised |-> FALSE, is_hw |-> TRUE, conf |-> 50, pred |-> DocumentHeuristic]

C2_Witness ==
  /\ Decided /\ NoLabelMatches
  /\ cls_img.var_ok /\ cls_img.variance = VARIANCE_THRESHOLD + 1
  /\ cls_img.decoded[1].conf = 90
  /\ cls_out.is_hw

\* C3: when no label contains a keyword and the grayscale variance is at or
\* below the threshold, the verdict is not target, with the confidence and
\* the label of the rank-0 prediction.
C3_NegativeAtOrBelowThreshold ==
  (Decided /\ NoLabelMatches /\ cls_img.var_ok /\ cls_img.variance <= VARIANCE_THRESHOLD)
    => cls_out = [raised |-> FALSE, is_hw |-> FALSE,
                  conf |-> cls_img.decoded[1].conf,
                  pred |-> cls_img.decoded[1].label]

\* the variance is exactly the threshold
C3_Witness ==
  /\ Decided /\ NoLabelMatches
  /\ cls_img.var_ok /\ cls_img.variance = VARIANCE_THRESHOLD
  /\ ~cls_out.is_hw /\ ~cls_out.raised

\* C4: when no label contains a keyword and the variance cannot be computed,
\* is_homework_related does not raise and returns not target, with the
\* confidence and the label of the rank-0 prediction.
C4_HeuristicFailureSwallowed ==
  (Decided /\ NoLabelMatches /\ ~cls_img.var_ok)
    => /\ ~cls_out.raised
       /\ ~cls_out.is_hw
       /\ cls_out.conf = cls_img.decoded[1].conf
       /\ cls_out.pred = cls_img.decoded[1].label

C4_Witness ==
  /\ Decided /\ NoLabelMatches /\ ~cls_img.var_ok
  /\ Len(cls_img.decoded) = 2
  /\ ~cls_out.raised /\ ~cls_out.is_hw

\* ------------------------------------------------------------------------
\* Properties of a run of organize_photos (checked under Spec)
\* ------------------------------------------------------------------------

\* the collaborators fail on the candidate at position k
ClassifierFails(k) == ~behaviour[image_files[k]].loads

\* classify_batch has returned
BatchDone == pc \in {"APPLYING", "REPORTED"} /\ Len(image_files) > 0

\* C5: classify_batch gives one result per candidate, in input order; a
\* candidate on which the classifier fails is recorded as (False, 0.0,
\* "error"), and every other candidate has the verdict is_homework_related
\* gives for it alone, whatever fails around it.
C5_BatchIsolation ==
  /\ Len(results) <= Len(image_files)
  /\ BatchDone => Len(results) = Len(image_files)
  /\ \A k \in 1..Len(results) :
       /\ results[k].path = image_files[k]
       /\ ClassifierFails(k) =>
            /\ results[k].is_hw = FALSE
            /\ results[k].conf = 0
            /\ results[k].pred = <<"e", "r", "r", "o", "r">>
       /\ ~ClassifierFails(k) =>
            LET v == is_homework_related(behaviour[image_files[k]])
            IN  /\ ~v.raised
                /\ results[k].is_hw = v.is_hw
                /\ results[k].conf = v.conf
                /\ results[k].pred = v.pred

\* a failure on an earlier candidate is followed by a target verdict
C5_Witness ==
  /\ BatchDone
  /\ \E j, k \in 1..Len(results) :
       j < k /\ ClassifierFails(j) /\ results[k].is_hw /\ results[j].pred = ErrorReason

\* organize_photos returned its statistics for a non-empty batch
Reported == pc = "REPORTED" /\ ret.kind = "dict" /\ Len(image_files) > 0

\* where the candidate at position k goes when it is moved
DestOf(k) == PathJoin(homework_dir, PathName(image_files[k]))

\* the candidate at position k was moved to the destination
Moved(k) == image_files[k] \notin fs_files /\ DestOf(k) \in fs_files

\* the candidates whose move was attempted and failed: targets of a
\* non-dry run that are still in the source directory at the end
FailedMoves ==
  { k \in 1..Len(results) : results[k].is_hw /\ ~dry_run /\ image_files[k] \in fs_files }

\* every candidate has a verdict, and every target of a non-dry run was
\* moved unless its own move failed
OthersProcessed ==
  /\ Len(results) = Len(image_files)
  /\ \A k \in 1..Len(results) :
       (results[k].is_hw /\ ~dry_run /\ k \notin FailedMoves) => Moved(k)

\* C6 as stated: a classifier failure on one of the candidates of a run
\* yields errorCount >= 1 in the returned statistics, and the remaining
\* candidates still receive verdicts and are moved if they are targets of
\* a non-dry run.
C6_ClassifierFailureCounted ==
  (Reported /\ \E k \in 1..Len(image_files) : ClassifierFails(k))
    => (ret.value.errors >= 1 /\ OthersProcessed)

\* C6 amended: a classifier failure on one of the candidates of a run is
\* counted in regularCount and not in errorCount, which is the number of
\* failed moves; the remaining candidates still receive verdicts and, if
\* they are targets of a non-dry run, are moved unless their own move fails.
C6_ClassifierFailureKeptRegular ==
  (Reported /\ \E k \in 1..Len(image_files) : ClassifierFails(k))
    => /\ ret.value.errors = Cardinality(FailedMoves)
       /\ ret.value.regular >= Cardinality({ k \in 1..Len(image_files) : ClassifierFails(k) })
       /\ ret.value.regular = Cardinality({ k \in 1..Len(results) : ~results[k].is_hw })
       /\ OthersProcessed

\* a run with a classifier failure, no error counted, and another
\* candidate moved
C6_Witness ==
  /\ Reported
  /\ ~dry_run
  /\ ret.value.errors = 0
  /\ \E j, k \in 1..Len(image_files) :
       ClassifierFails(j) /\ results[k].is_hw /\ Moved(k)

\* C7: with dry_run set no file is moved or removed at any point of the
\* run: every file that existed before the run is still at its path, and
\* no file has appeared, in the destination or elsewhere; only the
\* destination directory may have been created.
C7_DryRunMovesNothing ==
  dry_run =>
    /\ \A p \in files0 : p \in fs_files
    /\ \A p \in fs_files : p \in files0
    /\ fs_dirs \subseteq dirs0 \cup {homework_dir}
    /\ dirs0 \subseteq fs_dirs

\* a dry run that finished with a target verdict and created the destination
C7_Witness ==
  /\ dry_run
  /\ Reported
  /\ ret.value.homework >= 1
  /\ homework_dir \in fs_dirs /\ homework_dir \notin dirs0
  /\ \E k \in 1..Len(results) : results[k].is_hw /\ image_files[k] \in fs_files

\* C8: when the source path does not exist, the run returns None, creates
\* no directory, enumerates and classifies nothing and moves nothing.
C8_MissingSourceAborts ==
  (source_dir \notin dirs0 \cup files0) =>
    /\ pc \in {"VALIDATING_SOURCE", "ABORTED"}
    /\ pc = "ABORTED" => ret = [kind |-> "None"]
    /\ pc # "ABORTED" => ret = [kind |-> "pending"]
    /\ fs_dirs = dirs0
    /\ fs_files = files0
    /\ image_files = <<>>
    /\ results = <<>>
    /\ stats = NoStats

C8_Witness ==
  /\ pc = "ABORTED"
  /\ source_dir \notin dirs0 \cup files0
  /\ homework_dir \notin fs_dirs
  /\ ret.kind = "None"

\* C9: the statistics returned by a completed run satisfy
\* total = homework + regular, and total is the number of enumerated
\* candidates.
C9_TotalIsHomeworkPlusRegular ==
  pc = "REPORTED" =>
    /\ ret.kind = "dict"
    /\ ret.value.total = ret.value.homework + ret.value.regular
    /\ ret.value.total = Len(image_files)

\* a completed run with a classifier failure, a failed move and a moved file
C9_Witness ==
  /\ Reported
  /\ ret.value.errors >= 1
  /\ ret.value.regular >= 1
  /\ \E j, k \in 1..Len(image_files) : ClassifierFails(j) /\ Moved(k)

\* the name ends, ignoring case, with a supported extension that follows a
\* non-empty stem
HasSupportedExtension(name) ==
  \E ext \in { <<".", "j", "p", "g">>, <<".", "j", "p", "e", "g">>,
               <<".", "p", "n", "g">>, <<".", "b", "m", "p">>,
               <<".", "g", "i", "f">>, <<".", "w", "e", "b", "p">> } :
    /\ Len(name) > Len(ext)
    /\ Lower(SubSeq(name, Len(name) - Len(ext) + 1, Len(name))) = ext

\* the regular files directly in the source directory before the run whose
\* name has a supported extension
ExpectedCandidates ==
  { p \in files0 : PathParent(p) = source_dir /\ HasSupportedExtension(PathName(p)) }

\* C10: once enumerated, the candidates are exactly the direct children of
\* the source that are regular files with a supported extension, compared
\* ignoring case, each once; directories and files with another extension
\* are not candidates.
C10_EnumerationFilter ==
  pc \in {"CLASSIFYING", "APPLYING", "REPORTED"} =>
    /\ { image_files[k] : k \in 1..Len(image_files) } = ExpectedCandidates
    /\ Len(image_files) = Cardinality(ExpectedCandidates)
    /\ \A k \in 1..Len(image_files) : image_files[k] \notin dirs0

\* three supported images, one in upper case, and one unsupported file give
\* three candidates
C10_Witness ==
  /\ pc = "CLASSIFYING"
  /\ Len(image_files) = 3
  /\ Cardinality({ p \in files0 \cup dirs0 : PathParent(p) = source_dir }) = 4
  /\ PathJoin(source_dir, <<"d", ".", "t", "x", "t">>) \in files0
  /\ PathJoin(source_dir, <<"b", ".", "P", "N", "G">>) \in files0

\* the step is the iteration of the loop over results for a target of a
\* non-dry run whose move failed: the file is still in the source after it
MoveFailedStep ==
  /\ pc = "APPLYING"
  /\ idx' = idx + 1
  /\ results[idx].is_hw
  /\ ~dry_run
  /\ image_files[idx] \in fs_files'

\* C11: in a non-dry run a failed move of a target adds exactly one to
\* errorCount and changes no file, so files moved earlier stay in the
\* destination; the loop goes on, and at the end every candidate has been
\* counted and every target whose own move did not fail is in the
\* destination.
C11_MoveFailureIsolated ==
  /\ [][ /\ MoveFailedStep =>
              /\ stats'.errors = stats.errors + 1
              /\ stats'.homework = stats.homework + 1
              /\ fs_files' = fs_files
              /\ pc' = "APPLYING"
         /\ \A k \in 1..Len(image_files) : Moved(k) => Moved(k)' ]_vars
  /\ [](Reported =>
          /\ ret.value.homework + ret.value.regular = Len(image_files)
          /\ ret.value.errors = Cardinality(FailedMoves)
          /\ \A k \in 1..Len(results) :
               (results[k].is_hw /\ ~dry_run /\ k \notin FailedMoves) => Moved(k))

\* a failed move between two successful ones
C11_Witness ==
  /\ Reported
  /\ ~dry_run
  /\ ret.value.errors = 1
  /\ \E i, j, k \in 1..Len(results) :
       i < j /\ j < k /\ Moved(i) /\ j \in FailedMoves /\ Moved(k)

\* C12: in a dry run and in a non-dry run alike, a candidate whose verdict
\* is not target, a candidate recorded as "error" included, is at its
\* original path in the source at every point of the run and after it.
C12_NonTargetsUntouched ==
  \A k \in 1..Len(results) :
    ~results[k].is_hw =>
      /\ image_files[k] \in fs_files
      /\ image_files[k] \in files0

\* a finished non-dry run that kept an "error" candidate and a negative
\* one and moved a target
C12_Witness ==
  /\ Reported
  /\ ~dry_run
  /\ \E i, j, k \in 1..Len(results) :
       /\ results[i].pred = ErrorReason /\ ClassifierFails(i) /\ image_files[i] \in fs_files
       /\ ~results[j].is_hw /\ ~ClassifierFails(j) /\ image_files[j] \in fs_files
       /\ Moved(k)

\* the source path did not exist when the run started
SourceMissing == source_dir \notin dirs0 \cup files0

\* C13: the organize command exits with status 0 when the run completed,
\* errors on single candidates included, and with a non-zero status when
\* the source directory is missing.
C13_ExitCodes ==
  exit_code # -1 =>
    /\ pc = "REPORTED" => exit_code = 0
    /\ SourceMissing => exit_code # 0

\* C14: every run that is not aborted returns statistics holding the four
\* counts total, homework, regular and errors, a run that found no
\* candidate included.
C14_FourCounts ==
  pc = "REPORTED" =>
    /\ ret.kind = "dict"
    /\ DOMAIN ret.value = {"total", "homework", "regular", "errors"}

\* the verdict of the candidate at path p as its image alone determines it,
\* as (is_homework, confidence, prediction)
OwnVerdict(p) ==
  LET v == is_homework_related(behaviour[p])
  IN  IF v.raised THEN <<FALSE, 0, <<"e", "r", "r", "o", "r">> >>
      ELSE <<v.is_hw, v.conf, v.pred>>

\* C15: the candidates, the verdict of each candidate and the counts total,
\* homework and regular are determined by the contents of the source and
\* the outputs of the classifier alone, so a dry run and a non-dry run on
\* the same source invoke the classifier on the same candidates and agree
\* on every verdict and on the three counts.
C15_DryRunSameVerdicts ==
  /\ pc \in {"CLASSIFYING", "APPLYING", "REPORTED"} =>
       { image_files[k] : k \in 1..Len(image_files) } = ExpectedCandidates
  /\ \A k \in 1..Len(results) :
       <<results[k].is_hw, results[k].conf, results[k].pred>> = OwnVerdict(results[k].path)
  /\ pc = "REPORTED" =>
       /\ { results[k].path : k \in 1..Len(results) } = ExpectedCandidates
       /\ ret.value.total = Cardinality(ExpectedCandidates)
       /\ ret.value.homework = Cardinality({ p \in ExpectedCandidates : OwnVerdict(p)[1] })
       /\ ret.value.regular = Cardinality({ p \in ExpectedCandidates : ~OwnVerdict(p)[1] })

\* a finished dry run with a target and a non-target
C15_Witness ==
  /\ Reported
  /\ dry_run
  /\ ret.value.homework >= 1
  /\ ret.value.regular >= 1
  /\ ret.value.errors = 0

\* C16 as stated: candidate i is classified and, if it is a target of a
\* non-dry run, moved before the classification of candidate i+1 begins.
C16_MovedBeforeNextClassified ==
  \A k \in 2..Len(results) :
    (results[k - 1].is_hw /\ ~dry_run) => idx > k - 1

\* C16 amended: the run works in two sequential passes; every candidate is
\* classified, in enumeration order, before any file is moved, and only
\* then are the results applied in the same order, candidate i being
\* counted and (if a target of a non-dry run) moved before candidate i+1
\* is applied.
C16_ClassifyAllThenApply ==
  /\ \A k \in 1..Len(results) : results[k].path = image_files[k]
  /\ pc \in {"VALIDATING_SOURCE", "ENSURING_DESTINATION", "ENUMERATING", "CLASSIFYING"} =>
       /\ idx = 0
       /\ fs_files = files0
  /\ pc = "APPLYING" =>
       /\ Len(results) = Len(image_files)
       /\ idx \in 1..(Len(results) + 1)
       /\ stats.homework + stats.regular = idx - 1
       /\ \A k \in idx..Len(results) : image_files[k] \in fs_files

\* the first of three candidates is moved when the second, a target too,
\* is already classified and still in the source
C16_Witness ==
  /\ pc = "APPLYING"
  /\ ~dry_run
  /\ idx = 2
  /\ Len(results) = 3
  /\ Moved(1)
  /\ results[2].is_hw
  /\ image_files[2] \in fs_files

\* the order of the phases of a run
PhaseSuccessors ==
  { <<"VALIDATING_SOURCE", "ENSURING_DESTINATION">>,
    <<"ENSURING_DESTINATION", "ENUMERATING">>,
    <<"ENUMERATING", "CLASSIFYING">>,
    <<"CLASSIFYING", "APPLYING">>,
    <<"APPLYING", "REPORTED">> }

\* C17: a run goes through VALIDATING_SOURCE, ENSURING_DESTINATION,
\* ENUMERATING, CLASSIFYING, APPLYING and REPORTED in this order without
\* skipping a phase; it ends in ABORTED only when the source does not
\* exist; and a run whose source exists has reached REPORTED when the
\* command ends.
C17_PhaseOrder ==
  /\ [][ pc' # pc =>
           \/ <<pc, pc'>> \in PhaseSuccessors
           \/ (pc = "VALIDATING_SOURCE" /\ pc' = "ABORTED" /\ SourceMissing) ]_vars
  /\ [](pc = "ABORTED" => SourceMissing)
  /\ []((exit_code # -1 /\ ~SourceMissing) => pc = "REPORTED")

\* the candidates the loop over results has gone through
Applied == 1..(idx - 1)

\* the statistics exist: the loop over results runs or has ended
Counting == pc = "APPLYING" \/ Reported

\* C18: at every point of the loop over results and after it, errors is at
\* most homework: the candidates counted as errors are targets whose move
\* failed, each of them counted in homework, and regular counts the
\* non-targets only.
C18_ErrorsWithinHomework ==
  Counting =>
    /\ stats.errors <= stats.homework
    /\ stats.errors = Cardinality({ k \in Applied : k \in FailedMoves })
    /\ stats.homework = Cardinality({ k \in Applied : results[k].is_hw })
    /\ stats.regular = Cardinality({ k \in Applied : ~results[k].is_hw })
    /\ FailedMoves \subseteq { k \in 1..Len(results) : results[k].is_hw }

\* in the middle of the loop, every target so far failed to move and a
\* non-target was kept
C18_Witness ==
  /\ pc = "APPLYING"
  /\ idx <= Len(results)
  /\ stats.errors >= 1
  /\ stats.errors = stats.homework
  /\ stats.regular >= 1

\* config.HOMEWORK_KEYWORDS
HOMEWORK_KEYWORDS ==
  homework_keywords \o
    << <<"w", "e", "b", "_", "s", "i", "t", "e">>, <<"m", "e", "n", "u">> >>

\* the lower-cased label of a prediction contains a configured keyword
ConfigLabelMatches(p) ==
  \E k \in 1..Len(HOMEWORK_KEYWORDS) : Contains(HOMEWORK_KEYWORDS[k], Lower(p.label))

\* C19: the keywords the decision scans are those of
\* config.HOMEWORK_KEYWORDS: the verdict is the keyword verdict of the
\* first prediction whose label contains a configured keyword, and there
\* is a keyword verdict only when some label contains one.
C19_ConfiguredKeywords ==
  Decided =>
    /\ \A n \in 1..Len(cls_img.decoded) :
         ( /\ ConfigLabelMatches(cls_img.decoded[n])
           /\ \A j \in 1..(n - 1) : ~ConfigLabelMatches(cls_img.decoded[j]) )
         => cls_out = [raised |-> FALSE, is_hw |-> TRUE,
                       conf |-> cls_img.decoded[n].conf,
                       pred |-> cls_img.decoded[n].label]
    /\ (cls_out.is_hw /\ cls_out.pred # DocumentHeuristic)
         => \E n \in 1..Len(cls_img.decoded) : ConfigLabelMatches(cls_img.decoded[n])

\* C20: errors changes only in the iteration for a target of a non-dry run
\* whose move failed, and then by one; so it is 0 throughout a dry run, and
\* in any run it is the number of move attempts that failed, whatever the
\* classifier failures.
C20_ErrorsAreFailedMoves ==
  /\ [][ (pc = "APPLYING" /\ stats'.errors # stats.errors)
           => (MoveFailedStep /\ stats'.errors = stats.errors + 1) ]_vars
  /\ []((Counting /\ dry_run) => stats.errors = 0)
  /\ [](Reported => ret.value.errors = Cardinality(FailedMoves))
  /\ [](Counting => stats.errors = Cardinality({ k \in Applied : k \in FailedMoves }))

\* a finished run with two failed moves and a classifier failure
C20_Witness ==
  /\ Reported
  /\ ~dry_run
  /\ ret.value.errors = 2
  /\ Cardinality(FailedMoves) = 2
  /\ \E k \in 1..Len(results) : ClassifierFails(k)

\* the entries the source directory held when the run started
SourceFiles0 == { p \in files0 : PathParent(p) = source_dir }

\* the paths at which the content of the original file p is now
LocationsOf(p) == { q \in DOMAIN fs_content : fs_content[q] = p }

\* the same base name under the destination directory
InDestination(p) ==
  homework_dir \o SubSeq(p, Len(source_dir) + 1, Len(p))

\* the candidates that are targets of a non-dry run and that the loop over
\* results has gone through
AppliedTargets ==
  { image_files[k] : k \in { j \in Applied : results[j].is_hw /\ ~dry_run } }

====
